---- MODULE Spec2Model ----
(***************************************************************************)
(* dataduct/steps/emr_streaming.py: the command string of an EMR streaming *)
(* step (create_command, create_command_hadoop_1, create_command_hadoop_2) *)
(* and the constructor of EMRStreamingStep that calls it.                  *)
(*                                                                         *)
(* A Python str is a sequence of one-character strings, a Python list a    *)
(* sequence, and an optional value (x or None) a sequence of length 0 or 1.*)
(***************************************************************************)
EXTENDS Naturals, Sequences, FiniteSets

VARIABLES pc, caller, args, ami_family, command, command_options, files,
          result, error, given, kwargs, self

vars == <<pc, caller, args, ami_family, command, command_options, files,
          result, error, given, kwargs, self>>

-----------------------------------------------------------------------------
(* Bounds of the model *)

\* longest ami_version string drawn
MaxVerLen == 3
\* longest hadoop_params list drawn
MaxParams == 2

-----------------------------------------------------------------------------
(* Python values *)

None == <<>>
Some(x) == <<x>>
IsNone(o) == Len(o) = 0
Val(o) == o[1]

SeqsUpTo(S, n) == UNION {[1..k -> S] : k \in 0..n}

\* str.split(sep) for a one-character separator
RECURSIVE StrSplit(_, _)
StrSplit(s, sep) ==
    IF \A i \in 1..Len(s) : s[i] # sep
    THEN <<s>>
    ELSE LET k == CHOOSE i \in 1..Len(s) :
                      s[i] = sep /\ \A j \in 1..(i - 1) : s[j] # sep
         IN  <<SubSeq(s, 1, k - 1)>> \o StrSplit(SubSeq(s, k + 1, Len(s)), sep)

\* sep.join(parts)
RECURSIVE StrJoin(_, _)
StrJoin(sep, parts) ==
    IF Len(parts) = 0 THEN <<>>
    ELSE IF Len(parts) = 1 THEN parts[1]
    ELSE parts[1] \o sep \o StrJoin(sep, Tail(parts))

-----------------------------------------------------------------------------
(* Literals of the module *)

HADOOP_1_SERIES_ONLY_1 == {<<"1">>}
HADOOP_1_SERIES == {<<"1">>, <<"2">>}

VERSION_SEPARATOR == "."

JAR_PATH ==
    <<"/","h","o","m","e","/","h","a","d","o","o","p","/","c","o","n","t",
      "r","i","b","/","s","t","r","e","a","m","i","n","g","/","h","a","d",
      "o","o","p","-","s","t","r","e","a","m","i","n","g",".","j","a","r">>

OPT_OUTPUT == <<"-","o","u","t","p","u","t">>
OPT_INPUT == <<"-","i","n","p","u","t">>
OPT_MAPPER == <<"-","m","a","p","p","e","r">>
OPT_REDUCER == <<"-","r","e","d","u","c","e","r">>
OPT_FILES == <<"-","f","i","l","e","s">>

TOKEN_DELIMITER == <<",">>

FILES_DELIMITER_PLAIN == <<",">>
\* the Python literal '\\\\,' : backslash, backslash, comma
FILES_DELIMITER == <<"\\", "\\", ",">>

-----------------------------------------------------------------------------
(* Inputs drawn *)

Threads == {1, 2}

\* S3File objects as create_script returns them: s3_path.uri, s3_path.base_filename
WordMapper ==
    [uri |-> <<"s","3",":","/","/","b","/","w","m",".","p","y">>,
     base_filename |-> <<"w","m",".","p","y">>]
WordReducer ==
    [uri |-> <<"s","3",":","/","/","b","/","w","r",".","p","y">>,
     base_filename |-> <<"w","r",".","p","y">>]

\* S3 nodes: path().uri
InputNode == [uri |-> <<"s","3",":","/","/","b","/","i","n">>]
OutputNode == [uri |-> <<"s","3",":","/","/","b","/","o","u","t">>]

VersionChars == {"1", "2", "3", "."}
Versions == SeqsUpTo(VersionChars, MaxVerLen)

\* hadoop_params tokens: generic options and their values
ParamTokens == {<<"-","D">>, <<"a","=","b">>, <<"a",",","b">>, OPT_FILES}
ParamLists == SeqsUpTo(ParamTokens, MaxParams)

Mappers == {WordMapper}
Reducers == {None, Some(WordReducer)}
HadoopParams == {None} \cup {Some(p) : p \in ParamLists}

NoArgs == [mapper |-> WordMapper, reducer |-> None, ami_version |-> <<>>,
           input |-> None, output |-> None, hadoop_params |-> None]

\* the keyword arguments and the step object before __init__ has run
NoKwargs == [has_input_node |-> FALSE, input_node |-> None, ami_version |-> <<>>]
NewSelf == [base_init |-> FALSE, base_kwargs |-> NoKwargs, input_node |-> None,
            input |-> None, output |-> None, mapper |-> None, reducer |-> None,
            created |-> <<>>, activity |-> None]

-----------------------------------------------------------------------------
(* create_command and its two variants, one step per statement.  The lists *)
(* command, command_options and files are locals: each call makes its own. *)

FrameShared(t) == 1
\* the frame holding the locals of the call thread t is running
FrameOf(t) == t

Cmd(t) == command[FrameOf(t)]
Opts(t) == command_options[FrameOf(t)]
Files(t) == files[FrameOf(t)]

StepVars == <<given, kwargs, self>>

\* a caller invokes create_command(mapper, reducer, ami_version, input, output, hadoop_params)
Call(t, versions, params) ==
    /\ pc[t] = "idle"
    /\ \E m \in Mappers, r \in Reducers, v \in versions, p \in params :
          args' = [args EXCEPT ![t] =
                      [mapper |-> m, reducer |-> r, ami_version |-> v,
                       input |-> Some(InputNode), output |-> Some(OutputNode),
                       hadoop_params |-> p]]
    /\ pc' = [pc EXCEPT ![t] = "L55"]
    /\ caller' = [caller EXCEPT ![t] = "direct"]
    /\ result' = [result EXCEPT ![t] = None]
    /\ UNCHANGED <<ami_family, command, command_options, files, error, StepVars>>

AmiFamilyWhole(ami_version) == ami_version
\* ami_version.split('.')[0]
AmiFamily(ami_version) == StrSplit(ami_version, VERSION_SEPARATOR)[1]

SplitVersion(t) ==
    /\ pc[t] = "L55"
    /\ ami_family' = [ami_family EXCEPT ![t] = AmiFamily(args[t].ami_version)]
    /\ pc' = [pc EXCEPT ![t] = "L57"]
    /\ UNCHANGED <<caller, args, command, command_options, files, result, error, StepVars>>

InitialCommandEmpty == <<>>
\* command = ['/home/hadoop/contrib/streaming/hadoop-streaming.jar']
InitialCommand == <<JAR_PATH>>

InitCommand(t) ==
    /\ pc[t] = "L57"
    /\ command' = [command EXCEPT ![FrameOf(t)] = InitialCommand]
    /\ command_options' = [command_options EXCEPT ![FrameOf(t)] = <<>>]
    /\ pc' = [pc EXCEPT ![t] = "L62"]
    /\ UNCHANGED <<caller, args, ami_family, files, result, error, StepVars>>

AddHadoopParamsToOptions(t) ==
    /\ pc[t] = "L62"
    /\ IF ~IsNone(args[t].hadoop_params)
       THEN command_options' = [command_options EXCEPT
                                   ![FrameOf(t)] = @ \o Val(args[t].hadoop_params)]
       ELSE UNCHANGED command_options
    /\ pc' = [pc EXCEPT ![t] = "L66"]
    /\ UNCHANGED <<caller, args, ami_family, command, files, result, error, StepVars>>

\* if hadoop_params is not None: command.extend(hadoop_params)
AddHadoopParams(t) ==
    /\ pc[t] = "L62"
    /\ IF ~IsNone(args[t].hadoop_params)
       THEN command' = [command EXCEPT
                           ![FrameOf(t)] = @ \o Val(args[t].hadoop_params)]
       ELSE UNCHANGED command
    /\ pc' = [pc EXCEPT ![t] = "L66"]
    /\ UNCHANGED <<caller, args, ami_family, command_options, files, result, error, StepVars>>

\* command_options.extend(['-output', output.path().uri])
AddOutput(t) ==
    /\ pc[t] = "L66"
    /\ IF IsNone(args[t].output)
       THEN /\ error' = [error EXCEPT ![t] = Some("AttributeError")]
            /\ pc' = [pc EXCEPT ![t] = "raised"]
            /\ UNCHANGED command_options
       ELSE /\ command_options' = [command_options EXCEPT ![FrameOf(t)] =
                                      @ \o <<OPT_OUTPUT, Val(args[t].output).uri>>]
            /\ pc' = [pc EXCEPT ![t] = "L69"]
            /\ UNCHANGED error
    /\ UNCHANGED <<caller, args, ami_family, command, files, result, StepVars>>

\* command_options.extend(['-input', input.path().uri])
AddInput(t) ==
    /\ pc[t] = "L69"
    /\ IF IsNone(args[t].input)
       THEN /\ error' = [error EXCEPT ![t] = Some("AttributeError")]
            /\ pc' = [pc EXCEPT ![t] = "raised"]
            /\ UNCHANGED command_options
       ELSE /\ command_options' = [command_options EXCEPT ![FrameOf(t)] =
                                      @ \o <<OPT_INPUT, Val(args[t].input).uri>>]
            /\ pc' = [pc EXCEPT ![t] = "L71"]
            /\ UNCHANGED error
    /\ UNCHANGED <<caller, args, ami_family, command, files, result, StepVars>>

\* if ami_family in HADOOP_1_SERIES: create_command_hadoop_1(...) else create_command_hadoop_2(...)
Dispatch(t) ==
    /\ pc[t] = "L71"
    /\ pc' = [pc EXCEPT ![t] = IF ami_family[t] \in HADOOP_1_SERIES
                               THEN "H1_L21" ELSE "H2_L37"]
    /\ UNCHANGED <<caller, args, ami_family, command, command_options, files,
                   result, error, StepVars>>

(* create_command_hadoop_1 *)

H1MapperBaseFilename(t) ==
    /\ pc[t] = "H1_L21"
    /\ command_options' = [command_options EXCEPT ![FrameOf(t)] =
                              @ \o <<OPT_MAPPER, args[t].mapper.base_filename>>]
    /\ pc' = [pc EXCEPT ![t] = "H1_L22"]
    /\ UNCHANGED <<caller, args, ami_family, command, files, result, error, StepVars>>

\* command_options.extend(['-mapper', mapper.s3_path.uri])
H1Mapper(t) ==
    /\ pc[t] = "H1_L21"
    /\ command_options' = [command_options EXCEPT ![FrameOf(t)] =
                              @ \o <<OPT_MAPPER, args[t].mapper.uri>>]
    /\ pc' = [pc EXCEPT ![t] = "H1_L22"]
    /\ UNCHANGED <<caller, args, ami_family, command, files, result, error, StepVars>>

\* if reducer: command_options.extend(['-reducer', reducer.s3_path.uri])
H1Reducer(t) ==
    /\ pc[t] = "H1_L22"
    /\ IF ~IsNone(args[t].reducer)
       THEN command_options' = [command_options EXCEPT ![FrameOf(t)] =
                                   @ \o <<OPT_REDUCER, Val(args[t].reducer).uri>>]
       ELSE UNCHANGED command_options
    /\ pc' = [pc EXCEPT ![t] = "H1_L25"]
    /\ UNCHANGED <<caller, args, ami_family, command, files, result, error, StepVars>>

\* command.extend(command_options); return ','.join(command)
H1Return(t) ==
    /\ pc[t] = "H1_L25"
    /\ command' = [command EXCEPT ![FrameOf(t)] = @ \o Opts(t)]
    /\ result' = [result EXCEPT ![t] = Some(StrJoin(TOKEN_DELIMITER, Cmd(t) \o Opts(t)))]
    /\ pc' = [pc EXCEPT ![t] = "done"]
    /\ UNCHANGED <<caller, args, ami_family, command_options, files, error, StepVars>>

(* create_command_hadoop_2 *)

\* files = [mapper.s3_path.uri]
H2Files(t) ==
    /\ pc[t] = "H2_L37"
    /\ files' = [files EXCEPT ![FrameOf(t)] = <<args[t].mapper.uri>>]
    /\ pc' = [pc EXCEPT ![t] = "H2_L38"]
    /\ UNCHANGED <<caller, args, ami_family, command, command_options, result,
                   error, StepVars>>

H2MapperUri(t) ==
    /\ pc[t] = "H2_L38"
    /\ command_options' = [command_options EXCEPT ![FrameOf(t)] =
                              @ \o <<OPT_MAPPER, args[t].mapper.uri>>]
    /\ pc' = [pc EXCEPT ![t] = "H2_L39"]
    /\ UNCHANGED <<caller, args, ami_family, command, files, result, error, StepVars>>

\* command_options.extend(['-mapper', mapper.s3_path.base_filename])
H2Mapper(t) ==
    /\ pc[t] = "H2_L38"
    /\ command_options' = [command_options EXCEPT ![FrameOf(t)] =
                              @ \o <<OPT_MAPPER, args[t].mapper.base_filename>>]
    /\ pc' = [pc EXCEPT ![t] = "H2_L39"]
    /\ UNCHANGED <<caller, args, ami_family, command, files, result, error, StepVars>>

H2ReducerNotShared(t) ==
    /\ pc[t] = "H2_L39"
    /\ IF ~IsNone(args[t].reducer)
       THEN command_options' = [command_options EXCEPT ![FrameOf(t)] =
                                   @ \o <<OPT_REDUCER, Val(args[t].reducer).base_filename>>]
       ELSE UNCHANGED command_options
    /\ pc' = [pc EXCEPT ![t] = "H2_L45"]
    /\ UNCHANGED <<caller, args, ami_family, command, files, result, error, StepVars>>

\* if reducer: files.append(reducer.s3_path.uri)
\*             command_options.extend(['-reducer', reducer.s3_path.base_filename])
H2Reducer(t) ==
    /\ pc[t] = "H2_L39"
    /\ IF ~IsNone(args[t].reducer)
       THEN /\ files' = [files EXCEPT ![FrameOf(t)] =
                            Append(@, Val(args[t].reducer).uri)]
            /\ command_options' = [command_options EXCEPT ![FrameOf(t)] =
                                      @ \o <<OPT_REDUCER, Val(args[t].reducer).base_filename>>]
       ELSE UNCHANGED <<files, command_options>>
    /\ pc' = [pc EXCEPT ![t] = "H2_L45"]
    /\ UNCHANGED <<caller, args, ami_family, command, result, error, StepVars>>

\* command.extend(['-files', '\\\\,'.join(files)])
H2FilesOption(t) ==
    /\ pc[t] = "H2_L45"
    /\ command' = [command EXCEPT ![FrameOf(t)] =
                      @ \o <<OPT_FILES, StrJoin(FILES_DELIMITER, Files(t))>>]
    /\ pc' = [pc EXCEPT ![t] = "H2_L46"]
    /\ UNCHANGED <<caller, args, ami_family, command_options, files, result,
                   error, StepVars>>

\* command.extend(command_options); return ','.join(command)
H2Return(t) ==
    /\ pc[t] = "H2_L46"
    /\ command' = [command EXCEPT ![FrameOf(t)] = @ \o Opts(t)]
    /\ result' = [result EXCEPT ![t] = Some(StrJoin(TOKEN_DELIMITER, Cmd(t) \o Opts(t)))]
    /\ pc' = [pc EXCEPT ![t] = "done"]
    /\ UNCHANGED <<caller, args, ami_family, command_options, files, error, StepVars>>

\* the direct caller takes the returned string and drops its references; the
\* call's locals are gone
Return(t) ==
    /\ pc[t] = "done"
    /\ caller[t] = "direct"
    /\ pc' = [pc EXCEPT ![t] = "idle"]
    /\ ami_family' = [ami_family EXCEPT ![t] = <<>>]
    /\ command' = [command EXCEPT ![FrameOf(t)] = <<>>]
    /\ command_options' = [command_options EXCEPT ![FrameOf(t)] = <<>>]
    /\ files' = [files EXCEPT ![FrameOf(t)] = <<>>]
    /\ args' = [args EXCEPT ![t] = NoArgs]
    /\ result' = [result EXCEPT ![t] = None]
    /\ UNCHANGED <<caller, error, StepVars>>

-----------------------------------------------------------------------------

Init ==
    /\ pc = [t \in Threads |-> "idle"]
    /\ caller = [t \in Threads |-> "direct"]
    /\ args = [t \in Threads |-> NoArgs]
    /\ ami_family = [t \in Threads |-> <<>>]
    /\ command = [t \in Threads |-> <<>>]
    /\ command_options = [t \in Threads |-> <<>>]
    /\ files = [t \in Threads |-> <<>>]
    /\ result = [t \in Threads |-> None]
    /\ error = [t \in Threads |-> None]
    /\ given = [t \in Threads |-> None]
    /\ kwargs = [t \in Threads |-> NoKwargs]
    /\ self = [t \in Threads |-> NewSelf]

CreateCommandStep(t) ==
    \/ SplitVersion(t)
    \/ InitCommand(t)
    \/ AddHadoopParams(t)
    \/ AddOutput(t)
    \/ AddInput(t)
    \/ Dispatch(t)
    \/ H1Mapper(t)
    \/ H1Reducer(t)
    \/ H1Return(t)
    \/ H2Files(t)
    \/ H2Mapper(t)
    \/ H2Reducer(t)
    \/ H2FilesOption(t)
    \/ H2Return(t)

\* one caller, calling create_command again and again
Next ==
    \E t \in {1} :
        \/ Call(t, Versions, HadoopParams)
        \/ CreateCommandStep(t)
        \/ Return(t)

Spec == Init /\ [][Next]_vars

\* several callers at once, each calling create_command again and again
ThreadVersions == {<<"2", ".", "3">>, <<"3", ".", "1">>}
ThreadParams == {None, Some(<< <<"-","D">> >>)}

NextThreads ==
    \E t \in Threads :
        \/ Call(t, ThreadVersions, ThreadParams)
        \/ CreateCommandStep(t)
        \/ Return(t)

SpecThreads == Init /\ [][NextThreads]_vars

-----------------------------------------------------------------------------
(* EMRStreamingStep.__init__ *)

InputPath == <<"s","3",":","/","/","b","/","s","r","c">>
StepParams == {None, Some(<< <<"-","D">>, <<"a","=","b">> >>)}


\* EMRStreamingStep(mapper, reducer=, input_path=, hadoop_params=, **kwargs)
Construct(t) ==
    /\ pc[t] = "idle"
    /\ \E r \in {None, Some("reducer.py")}, ip \in {None, Some(InputPath)},
          n \in {None, Some(InputNode)}, p \in StepParams, v \in Versions :
          /\ given' = [given EXCEPT ![t] =
                          Some([mapper |-> "mapper.py", reducer |-> r,
                                input_path |-> ip, hadoop_params |-> p,
                                input_node |-> n, ami_version |-> v])]
          /\ kwargs' = [kwargs EXCEPT ![t] =
                           [has_input_node |-> ~IsNone(n), input_node |-> n,
                            ami_version |-> v]]
    /\ self' = [self EXCEPT ![t] = NewSelf]
    /\ caller' = [caller EXCEPT ![t] = "step"]
    /\ pc' = [pc EXCEPT ![t] = "S102"]
    /\ UNCHANGED <<args, ami_family, command, command_options, files, result, error>>

\* if input_path is not None: input_node = kwargs.pop('input_node', None)
\* else: input_node = kwargs.get('input_node', None)
StepTakeInputNode(t) ==
    /\ pc[t] = "S102"
    /\ self' = [self EXCEPT ![t].input_node = kwargs[t].input_node]
    /\ IF ~IsNone(Val(given[t]).input_path)
       THEN kwargs' = [kwargs EXCEPT ![t].has_input_node = FALSE,
                                     ![t].input_node = None]
       ELSE UNCHANGED kwargs
    /\ pc' = [pc EXCEPT ![t] = "S107"]
    /\ UNCHANGED <<caller, args, ami_family, command, command_options, files,
                   result, error, given>>

\* if input_path is not None and 'input_node' in kwargs: raise ETLInputError(...)
StepCheckInputs(t) ==
    /\ pc[t] = "S107"
    /\ IF ~IsNone(Val(given[t]).input_path) /\ kwargs[t].has_input_node
       THEN /\ error' = [error EXCEPT ![t] = Some("ETLInputError")]
            /\ pc' = [pc EXCEPT ![t] = "raised"]
       ELSE /\ pc' = [pc EXCEPT ![t] = "S110"]
            /\ UNCHANGED error
    /\ UNCHANGED <<caller, args, ami_family, command, command_options, files,
                   result, given, kwargs, self>>

\* super(EMRStreamingStep, self).__init__(**kwargs)
StepBaseInit(t) ==
    /\ pc[t] = "S110"
    /\ self' = [self EXCEPT ![t].base_init = TRUE, ![t].base_kwargs = kwargs[t]]
    /\ pc' = [pc EXCEPT ![t] = "S112"]
    /\ UNCHANGED <<caller, args, ami_family, command, command_options, files,
                   result, error, given, kwargs>>

\* if input_path is not None: input_node = self.create_s3_data_node(S3Path(uri=input_path))
\* self._input = input_node; self._output = self.create_s3_data_node()
StepCreateNodes(t) ==
    /\ pc[t] = "S112"
    /\ LET ip == Val(given[t]).input_path
           node == IF ~IsNone(ip) THEN Some([uri |-> Val(ip)])
                   ELSE self[t].input_node
           made == IF ~IsNone(ip) THEN <<"S3Node">> ELSE <<>>
       IN  self' = [self EXCEPT ![t].input_node = node,
                                ![t].input = node,
                                ![t].output = Some(OutputNode),
                                ![t].created = @ \o made \o <<"S3Node">>]
    /\ pc' = [pc EXCEPT ![t] = "S122"]
    /\ UNCHANGED <<caller, args, ami_family, command, command_options, files,
                   result, error, given, kwargs>>

\* mapper = self.create_script(S3File(path=mapper))
\* if reducer is not None: reducer = self.create_script(S3File(path=reducer))
StepCreateScripts(t) ==
    /\ pc[t] = "S122"
    /\ IF ~IsNone(Val(given[t]).reducer)
       THEN self' = [self EXCEPT ![t].mapper = Some(WordMapper),
                                 ![t].reducer = Some(WordReducer),
                                 ![t].created = @ \o <<"script", "script">>]
       ELSE self' = [self EXCEPT ![t].mapper = Some(WordMapper),
                                 ![t].created = @ \o <<"script">>]
    /\ pc' = [pc EXCEPT ![t] = "S129"]
    /\ UNCHANGED <<caller, args, ami_family, command, command_options, files,
                   result, error, given, kwargs>>

\* step_string = create_command(mapper, reducer, self.resource.ami_version,
\*                              self._input, self._output, hadoop_params)
StepCallCreateCommand(t) ==
    /\ pc[t] = "S129"
    /\ args' = [args EXCEPT ![t] =
                   [mapper |-> Val(self[t].mapper), reducer |-> self[t].reducer,
                    ami_version |-> self[t].base_kwargs.ami_version,
                    input |-> self[t].input, output |-> self[t].output,
                    hadoop_params |-> Val(given[t]).hadoop_params]]
    /\ result' = [result EXCEPT ![t] = None]
    /\ pc' = [pc EXCEPT ![t] = "L55"]
    /\ UNCHANGED <<caller, ami_family, command, command_options, files, error,
                   StepVars>>

\* self.activity = self.create_pipeline_object(object_class=EmrActivity, ...,
\*                                             emr_step_string=step_string, ...)
StepRegisterActivity(t) ==
    /\ pc[t] = "done"
    /\ caller[t] = "step"
    /\ self' = [self EXCEPT
                   ![t].activity = Some([emr_step_string |-> Val(result[t]),
                                         input_node |-> self[t].input_node,
                                         output_node |-> self[t].output]),
                   ![t].created = @ \o <<"EmrActivity">>]
    /\ pc' = [pc EXCEPT ![t] = "constructed"]
    /\ UNCHANGED <<caller, args, ami_family, command, command_options, files,
                   result, error, given, kwargs>>

\* one pipeline definition constructing a step
NextStep ==
    \E t \in {1} :
        \/ Construct(t)
        \/ StepTakeInputNode(t)
        \/ StepCheckInputs(t)
        \/ StepBaseInit(t)
        \/ StepCreateNodes(t)
        \/ StepCreateScripts(t)
        \/ StepCallCreateCommand(t)
        \/ CreateCommandStep(t)
        \/ StepRegisterActivity(t)

SpecStep == Init /\ [][NextStep]_vars

-----------------------------------------------------------------------------
(* What the claims speak of *)

Returned(t) == pc[t] = "done"

Min(S) == CHOOSE x \in S : \A y \in S : x <= y

\* the text of a version string before its first '.'
MajorVersion(v) ==
    LET dots == {i \in 1..Len(v) : v[i] = "."}
    IN  IF dots = {} THEN v ELSE SubSeq(v, 1, Min(dots) - 1)

HasSeparator(v) == \E i \in 1..Len(v) : v[i] = "."

LegacyMajors == {<<"1">>, <<"2">>}

ExtraParams(a) == IF IsNone(a.hadoop_params) THEN <<>> ELSE Val(a.hadoop_params)

OptionNames == {OPT_OUTPUT, OPT_INPUT, OPT_MAPPER, OPT_REDUCER}

Positions(seq, x) == {i \in 1..Len(seq) : seq[i] = x}

\* the places where sub occurs in s
Occurrences(s, sub) ==
    {i \in 1..(Len(s) + 1 - Len(sub)) : SubSeq(s, i, i + Len(sub) - 1) = sub}

EscapedComma == <<"\\", "\\", ",">>

\* [jar, *extraParams, -output, out, -input, in, -mapper, mapper address, (-reducer, reducer address)]
LegacyTokens(a) ==
    <<JAR_PATH>> \o ExtraParams(a)
        \o <<OPT_OUTPUT, Val(a.output).uri, OPT_INPUT, Val(a.input).uri>>
        \o <<OPT_MAPPER, a.mapper.uri>>
        \o (IF IsNone(a.reducer) THEN <<>> ELSE <<OPT_REDUCER, Val(a.reducer).uri>>)

\* [jar, *extraParams, -files, addresses, -output, out, -input, in, -mapper, mapper name, (-reducer, reducer name)]
ModernTokens(a) ==
    <<JAR_PATH>> \o ExtraParams(a)
        \o <<OPT_FILES,
             IF IsNone(a.reducer) THEN a.mapper.uri
             ELSE a.mapper.uri \o EscapedComma \o Val(a.reducer).uri>>
        \o <<OPT_OUTPUT, Val(a.output).uri, OPT_INPUT, Val(a.input).uri>>
        \o <<OPT_MAPPER, a.mapper.base_filename>>
        \o (IF IsNone(a.reducer) THEN <<>>
            ELSE <<OPT_REDUCER, Val(a.reducer).base_filename>>)

RECURSIVE Flatten(_)
Flatten(tokens) ==
    IF Len(tokens) = 0 THEN <<>>
    ELSE IF Len(tokens) = 1 THEN tokens[1]
    ELSE tokens[1] \o <<",">> \o Flatten(Tail(tokens))

\* a string cut at every comma that no backslash precedes
RECURSIVE SplitUnescaped(_)
SplitUnescaped(s) ==
    LET cuts == {i \in 1..Len(s) : s[i] = "," /\ (i = 1 \/ s[i - 1] # "\\")}
    IN  IF cuts = {} THEN <<s>>
        ELSE <<SubSeq(s, 1, Min(cuts) - 1)>>
                 \o SplitUnescaped(SubSeq(s, Min(cuts) + 1, Len(s)))

NoComma(s) == \A i \in 1..Len(s) : s[i] # ","

ValidInputs(a) ==
    /\ NoComma(a.mapper.uri) /\ NoComma(a.mapper.base_filename)
    /\ IsNone(a.reducer) \/ (NoComma(Val(a.reducer).uri)
                              /\ NoComma(Val(a.reducer).base_filename))
    /\ NoComma(Val(a.input).uri) /\ NoComma(Val(a.output).uri)
    /\ \A i \in 1..Len(ExtraParams(a)) : NoComma(ExtraParams(a)[i])

LegacyShape(t) ==
    /\ Cmd(t) = LegacyTokens(args[t])
    /\ result[t] = Some(Flatten(LegacyTokens(args[t])))

ModernShape(t) ==
    /\ Cmd(t) = ModernTokens(args[t])
    /\ result[t] = Some(Flatten(ModernTokens(args[t])))

-----------------------------------------------------------------------------
(* C2: with hadoop_params present, in both families its tokens are tokens  *)
(* 2..1+n of the command, verbatim and in order, right after the jar path, *)
(* and every -output, -input, -mapper and -reducer token comes after them. *)
C2_ParamsRightAfterJar ==
    \A t \in Threads :
        (Returned(t) /\ ~IsNone(args[t].hadoop_params)) =>
            LET c == Cmd(t)
                p == Val(args[t].hadoop_params)
                n == Len(p)
            IN  /\ Len(c) > n + 1
                /\ c[1] = JAR_PATH
                /\ SubSeq(c, 2, n + 1) = p
                /\ Positions(c, OPT_OUTPUT) # {}
                /\ Min(Positions(c, OPT_OUTPUT)) > n + 1
                /\ \A i \in 1..Len(c) : c[i] \in OptionNames => i > n + 1
                /\ result[t] = Some(Flatten(c))

C2_Witness ==
    \E t \in Threads :
        /\ Returned(t)
        /\ ~IsNone(args[t].hadoop_params)
        /\ Val(args[t].hadoop_params) = << <<"-","D">>, <<"a","=","b">> >>
        /\ ami_family[t] = <<"3">>

(* C3 as stated: for major version '1' or '2' the tokens are exactly       *)
(* [jar, *extraParams, -output, out, -input, in, -mapper, mapper address,  *)
(* (-reducer, reducer address iff a reducer is present)], no token is      *)
(* '-files', and '-mapper' is never followed by the base filename.         *)
C3_LegacyLayoutNoFilesToken ==
    \A t \in Threads :
        (Returned(t) /\ MajorVersion(args[t].ami_version) \in LegacyMajors) =>
            /\ LegacyShape(t)
            /\ Positions(Cmd(t), OPT_FILES) = {}
            /\ \A i \in Positions(Cmd(t), OPT_MAPPER) :
                   /\ i < Len(Cmd(t))
                   /\ Cmd(t)[i + 1] = args[t].mapper.uri
                   /\ Cmd(t)[i + 1] # args[t].mapper.base_filename

(* C3 amended: the same, except that no token outside the extraParams      *)
(* (tokens 2..1+n, which are the caller's and may hold a generic '-files') *)
(* is '-files'.                                                            *)
C3_LegacyLayout ==
    \A t \in Threads :
        (Returned(t) /\ MajorVersion(args[t].ami_version) \in LegacyMajors) =>
            /\ LegacyShape(t)
            /\ \A i \in Positions(Cmd(t), OPT_FILES) :
                   i \in 2..(1 + Len(ExtraParams(args[t])))
            /\ (Len(Cmd(t)) - (1 + Len(ExtraParams(args[t])))
                    = IF IsNone(args[t].reducer) THEN 6 ELSE 8)
            /\ \A i \in Positions(Cmd(t), OPT_MAPPER) :
                   /\ i < Len(Cmd(t))
                   /\ Cmd(t)[i + 1] = args[t].mapper.uri
                   /\ Cmd(t)[i + 1] # args[t].mapper.base_filename

C3_Witness ==
    \E t \in Threads :
        /\ Returned(t)
        /\ args[t].ami_version = <<"2", ".", "3">>
        /\ ~IsNone(args[t].reducer)
        /\ ExtraParams(args[t]) = <<OPT_FILES, <<"a","=","b">> >>

(* C4: for any other major version the tokens are [jar, *extraParams,      *)
(* -files, joined addresses, -output, out, -input, in, -mapper, mapper     *)
(* base filename, (-reducer, reducer base filename)]: the -files pair sits *)
(* right after the extraParams and before the options, its value contains  *)
(* the mapper's full address, and -mapper is followed by the base filename.*)
C4_ModernLayout ==
    \A t \in Threads :
        (Returned(t) /\ MajorVersion(args[t].ami_version) \notin LegacyMajors) =>
            LET c == Cmd(t)
                n == Len(ExtraParams(args[t]))
            IN  /\ ModernShape(t)
                /\ c[n + 2] = OPT_FILES
                /\ Occurrences(c[n + 3], args[t].mapper.uri) # {}
                /\ \A i \in 1..Len(c) : c[i] \in OptionNames => i > n + 3
                /\ \A i \in Positions(c, OPT_MAPPER) :
                       /\ i < Len(c)
                       /\ c[i + 1] = args[t].mapper.base_filename
                       /\ c[i + 1] # args[t].mapper.uri

C4_Witness ==
    \E t \in Threads :
        /\ Returned(t)
        /\ args[t].ami_version = <<"3", ".", "1">>
        /\ ~IsNone(args[t].reducer)
        /\ Len(ExtraParams(args[t])) = 2

(* C5: the layout is decided by the text of ami_version before its first   *)
(* '.', by membership in {'1','2'} alone: the returned string is the       *)
(* legacy string of the other arguments when that text is '1' or '2' and   *)
(* their modern string otherwise, so equal leading components give equal   *)
(* output.                                                                 *)
C5_DispatchOnMajorVersion ==
    \A t \in Threads :
        Returned(t) =>
            /\ ami_family[t] = MajorVersion(args[t].ami_version)
            /\ result[t] =
                   IF MajorVersion(args[t].ami_version) \in LegacyMajors
                   THEN Some(Flatten(LegacyTokens(args[t])))
                   ELSE Some(Flatten(ModernTokens(args[t])))
            /\ (MajorVersion(args[t].ami_version) \in LegacyMajors)
                   <=> Positions(Cmd(t), OPT_MAPPER) \subseteq
                           {i \in 1..(Len(Cmd(t)) - 1) :
                                Cmd(t)[i + 1] = args[t].mapper.uri}

C5_Witness ==
    \E t \in Threads :
        /\ Returned(t)
        /\ args[t].ami_version = <<"1", ".", "3">>
        /\ result[t] = Some(Flatten(LegacyTokens(args[t])))

(* C6 as stated: a version string with no '.' is taken whole as the major  *)
(* version and gets the modern layout (a -files pair, -mapper followed by  *)
(* the base filename).                                                     *)
C6_NoSeparatorIsModern ==
    \A t \in Threads :
        (Returned(t) /\ ~HasSeparator(args[t].ami_version)) =>
            /\ ami_family[t] = args[t].ami_version
            /\ ModernShape(t)

(* C6 amended: a version string with no '.' is taken whole as the major    *)
(* version; it gets the modern layout unless the string is exactly '1' or  *)
(* '2', which get the legacy layout.                                       *)
C6_NoSeparatorWholeString ==
    \A t \in Threads :
        (Returned(t) /\ ~HasSeparator(args[t].ami_version)) =>
            /\ ami_family[t] = args[t].ami_version
            /\ IF args[t].ami_version \in LegacyMajors
               THEN LegacyShape(t)
               ELSE ModernShape(t)

C6_Witness ==
    \E t \in Threads :
        /\ Returned(t)
        /\ args[t].ami_version = <<"2">>
        /\ LegacyShape(t)

(* C7: with a reducer there is exactly one -reducer token, followed by the *)
(* reducer's address (legacy) or base filename (modern), and in modern the *)
(* reducer's address is in the files list; with none there is no -reducer  *)
(* token, no token naming a reducer, and (modern) the files list holds the *)
(* mapper's address only.                                                  *)
C7_ReducerAllOrNothing ==
    \A t \in Threads :
        Returned(t) =>
            LET c == Cmd(t)
                modern == ami_family[t] \notin LegacyMajors
            IN  IF ~IsNone(args[t].reducer)
                THEN /\ Cardinality(Positions(c, OPT_REDUCER)) = 1
                     /\ \A i \in Positions(c, OPT_REDUCER) :
                            /\ i < Len(c)
                            /\ c[i + 1] = IF modern
                                          THEN Val(args[t].reducer).base_filename
                                          ELSE Val(args[t].reducer).uri
                     /\ modern => Files(t) = <<args[t].mapper.uri,
                                               Val(args[t].reducer).uri>>
                     /\ ~modern => Files(t) = <<>>
                ELSE /\ Positions(c, OPT_REDUCER) = {}
                     /\ \A i \in 1..Len(c) :
                            /\ Occurrences(c[i], WordReducer.uri) = {}
                            /\ Occurrences(c[i], WordReducer.base_filename) = {}
                     /\ modern => Files(t) = <<args[t].mapper.uri>>
                     /\ ~modern => Files(t) = <<>>

C7_Witness ==
    \E t \in Threads :
        /\ Returned(t)
        /\ ~IsNone(args[t].reducer)
        /\ ami_family[t] = <<"3">>
        /\ Len(Files(t)) = 2

(* C8: in the modern family the token after the -files the builder inserts *)
(* (token n+3) is, with a reducer, the mapper's address, then backslash    *)
(* backslash comma, then the reducer's address: two addresses, one         *)
(* delimiter; with no reducer it is the mapper's address and no delimiter. *)
C8_FilesValue ==
    \A t \in Threads :
        (Returned(t) /\ ami_family[t] \notin LegacyMajors) =>
            LET c == Cmd(t)
                n == Len(ExtraParams(args[t]))
                v == c[n + 3]
            IN  /\ c[n + 2] = OPT_FILES
                /\ IF ~IsNone(args[t].reducer)
                   THEN /\ v = args[t].mapper.uri \o EscapedComma
                                   \o Val(args[t].reducer).uri
                        /\ Len(Files(t)) = 2
                        /\ Cardinality(Occurrences(v, EscapedComma)) = 1
                        /\ Cardinality(Occurrences(v, <<",">>)) = 1
                   ELSE /\ v = args[t].mapper.uri
                        /\ Len(Files(t)) = 1
                        /\ Occurrences(v, <<",">>) = {}

C8_Witness ==
    \E t \in Threads :
        /\ Returned(t)
        /\ ami_family[t] = <<"1", "2">>
        /\ ~IsNone(args[t].reducer)
        /\ Len(ExtraParams(args[t])) = 1

(* C10: for inputs with no comma in any address or extra parameter, the    *)
(* returned string cut at its unescaped commas has the launcher jar path   *)
(* as its first token.                                                     *)
C10_JarPathFirst ==
    \A t \in Threads :
        (Returned(t) /\ ValidInputs(args[t])) =>
            /\ ~IsNone(result[t])
            /\ SplitUnescaped(Val(result[t]))[1] = JAR_PATH

C10_Witness ==
    \E t \in Threads :
        /\ Returned(t)
        /\ ValidInputs(args[t])
        /\ ~IsNone(args[t].reducer)
        /\ ami_family[t] = <<"3">>
        /\ Len(ExtraParams(args[t])) = 2
        /\ Len(SplitUnescaped(Val(result[t]))) = 13

(* C9: create_command keeps nothing between calls and touches none of its  *)
(* arguments: whatever calls came before or run beside it, each call       *)
(* returns the string of its own arguments (calls with equal arguments     *)
(* return equal strings, no token of another call in them), and while a    *)
(* call runs the caller's hadoop_params, mapper, reducer, input and output *)
(* stay as they were.                                                      *)
ResultOfArgs(a) ==
    IF MajorVersion(a.ami_version) \in LegacyMajors
    THEN Flatten(LegacyTokens(a))
    ELSE Flatten(ModernTokens(a))

C9_EachCallItsOwnResult ==
    \A t \in Threads :
        Returned(t) =>
            /\ result[t] = Some(ResultOfArgs(args[t]))
            /\ \A u \in Threads :
                   (Returned(u) /\ args[u] = args[t]) => result[u] = result[t]

C9_ArgumentsUntouched ==
    \A t \in Threads :
        (pc[t] # "idle" /\ pc'[t] # "idle") => args'[t] = args[t]

\* C9: every returned string is the string of that call's own arguments, and
\* no step of a running call changes its arguments.
C9_Pure == [](C9_EachCallItsOwnResult) /\ [][C9_ArgumentsUntouched]_vars

C9_Witness ==
    /\ Returned(1)
    /\ pc[2] = "H2_L45"
    /\ args[1].ami_version = <<"2", ".", "3">>
    /\ args[1].hadoop_params # args[2].hadoop_params
    /\ IsNone(args[1].reducer) /\ ~IsNone(args[2].reducer)

(* C1: with input_path and input_node both supplied the constructor fails  *)
(* with ETLInputError at once: the base constructor has not run, no S3     *)
(* node or script is made, no command built, no activity registered.       *)
BothSupplied(t) ==
    /\ caller[t] = "step"
    /\ ~IsNone(given[t])
    /\ ~IsNone(Val(given[t]).input_path)
    /\ ~IsNone(Val(given[t]).input_node)

\* C1: once both input_path and input_node are supplied, the constructor has
\* raised ETLInputError before doing anything else.
C1_BothInputsRejected ==
    \A t \in Threads :
        (BothSupplied(t) /\ pc[t] \notin {"S102", "S107"}) =>
            /\ pc[t] = "raised"
            /\ error[t] = Some("ETLInputError")
            /\ ~self[t].base_init
            /\ self[t].created = <<>>
            /\ IsNone(self[t].activity)
            /\ args[t] = NoArgs

====
